---- MODULE Spec2Model ----
(***************************************************************************)
(* Formater.py: conversion of a tab-delimited file to CSV, JSON or XML.    *)
(* The model covers main's dispatch, the three conversion routines with    *)
(* their file handles, and the row parsing done by csv.reader and          *)
(* csv.DictReader as the routines configure them.                          *)
(***************************************************************************)
EXTENDS Integers, Sequences, FiniteSets, TLC

\* Longest input file, in bytes, that Init enumerates.
MaxLen == 4

\* delimiter='\t' given to csv.reader / csv.DictReader
TAB == 9
\* line terminator of the text-mode input file
NL == 10
\* carriage return: a line ending in the input, and half of the writer's
\* line terminator
CR == 13
\* default quotechar of the csv dialect the readers are built with
QUOTE == 34

\* Byte values input files are built from: the delimiter, both line-ending
\* characters, the quote character, and the two ends of the byte range, NUL
\* and 0xFF, which the parser treats as ordinary characters.
Bytes == {TAB, NL, CR, QUOTE, 0, 255}

RECURSIVE SeqsUpTo(_)
SeqsUpTo(n) ==
  IF n = 0 THEN {<<>>}
  ELSE LET shorter == SeqsUpTo(n - 1)
       IN shorter \cup {Append(s, b) : s \in {t \in shorter : Len(t) = n - 1}, b \in Bytes}

Contents == SeqsUpTo(MaxLen)

Range(s) == {s[i] : i \in 1..Len(s)}

(***************************************************************************)
(* open(input_file, 'r', encoding='latin-1', errors='replace')             *)
(***************************************************************************)
\* latin-1 maps every byte 0..255 to the code point of the same number;
\* errors='replace' substitutes U+FFFD for anything else.
DecodeByte(b) == IF b \in 0..255 THEN b ELSE 65533

Decode(bytes) == [i \in 1..Len(bytes) |-> DecodeByte(bytes[i])]

\* errors='replace': an undecodable byte is replaced, never reported, so
\* reading raises UnicodeDecodeError only under the 'strict' handler.
ErrorsMode == "replace"

\* A codec that rejects what it cannot map: encoding='ascii' with the
\* default error handler.
DecodeRaisesAscii(bytes) == \E i \in 1..Len(bytes) : bytes[i] \notin 0..127

DecodeRaises(bytes) ==
  ErrorsMode = "strict" /\ \E i \in 1..Len(bytes) : bytes[i] \notin 0..255

\* The file is opened without a newline argument, so "\r\n" and a lone "\r"
\* are both read as "\n".
RECURSIVE UniversalNewlines(_, _)
UniversalNewlines(text, k) ==
  IF k > Len(text) THEN <<>>
  ELSE IF text[k] = CR
       THEN <<NL>> \o UniversalNewlines(text, IF k < Len(text) /\ text[k + 1] = NL THEN k + 2 ELSE k + 1)
       ELSE <<text[k]>> \o UniversalNewlines(text, k + 1)

\* Iterating the text file yields its lines, each with its terminator,
\* the last one possibly without.
RECURSIVE ReadLines(_, _, _)
ReadLines(text, k, cur) ==
  IF k > Len(text) THEN (IF cur = <<>> THEN <<>> ELSE <<cur>>)
  ELSE IF text[k] = NL THEN <<Append(cur, NL)>> \o ReadLines(text, k + 1, <<>>)
  ELSE ReadLines(text, k + 1, Append(cur, text[k]))

Lines(text) == ReadLines(text, 1, <<>>)

\* The lines the opened input file yields.
FileLines(bytes) == Lines(UniversalNewlines(Decode(bytes), 1))

(***************************************************************************)
(* csv.reader(infile, delimiter='\t'): the parser state machine.           *)
(***************************************************************************)
ParseReset == [st |-> "START_RECORD", fields |-> <<>>, field |-> <<>>]

SaveField(ps) == [ps EXCEPT !.fields = Append(@, ps.field), !.field = <<>>]

AddChar(ps, c) == [ps EXCEPT !.field = Append(@, c)]

ProcessChar(ps, c) ==
  IF ps.st = "START_RECORD" /\ c = NL THEN [ps EXCEPT !.st = "EAT_CRNL"]
  ELSE IF ps.st \in {"START_RECORD", "START_FIELD"} THEN
    IF c = NL THEN [SaveField(ps) EXCEPT !.st = "EAT_CRNL"]
    ELSE IF c = QUOTE THEN [ps EXCEPT !.st = "IN_QUOTED_FIELD"]
    ELSE IF c = TAB THEN [SaveField(ps) EXCEPT !.st = "START_FIELD"]
    ELSE [AddChar(ps, c) EXCEPT !.st = "IN_FIELD"]
  ELSE IF ps.st = "IN_FIELD" THEN
    IF c = NL THEN [SaveField(ps) EXCEPT !.st = "EAT_CRNL"]
    ELSE IF c = TAB THEN [SaveField(ps) EXCEPT !.st = "START_FIELD"]
    ELSE AddChar(ps, c)
  ELSE IF ps.st = "IN_QUOTED_FIELD" THEN
    IF c = QUOTE THEN [ps EXCEPT !.st = "QUOTE_IN_QUOTED_FIELD"]
    ELSE AddChar(ps, c)
  ELSE IF ps.st = "QUOTE_IN_QUOTED_FIELD" THEN
    IF c = QUOTE THEN [AddChar(ps, c) EXCEPT !.st = "IN_QUOTED_FIELD"]
    ELSE IF c = TAB THEN [SaveField(ps) EXCEPT !.st = "START_FIELD"]
    ELSE IF c = NL THEN [SaveField(ps) EXCEPT !.st = "EAT_CRNL"]
    ELSE [AddChar(ps, c) EXCEPT !.st = "IN_FIELD"]
  ELSE \* EAT_CRNL: only line terminators follow within a line
    ps

\* The end-of-line marker the reader feeds after the last character of a line.
ProcessEOL(ps) ==
  IF ps.st \in {"START_FIELD", "IN_FIELD", "QUOTE_IN_QUOTED_FIELD"}
  THEN [SaveField(ps) EXCEPT !.st = "START_RECORD"]
  ELSE IF ps.st = "EAT_CRNL" THEN [ps EXCEPT !.st = "START_RECORD"]
  ELSE ps

RECURSIVE ParseLine(_, _, _)
ParseLine(ps, line, k) ==
  IF k > Len(line) THEN ProcessEOL(ps)
  ELSE ParseLine(ProcessChar(ps, line[k]), line, k + 1)

\* next(reader) with the input positioned at line i: lines are consumed
\* until the parser is back at START_RECORD; at end of input an open quoted
\* field is returned as it stands.
RECURSIVE ReaderNext(_, _, _)
ReaderNext(lines, i, ps) ==
  IF i > Len(lines)
  THEN IF Len(ps.field) # 0 \/ ps.st = "IN_QUOTED_FIELD"
       THEN [stop |-> FALSE, row |-> SaveField(ps).fields, next |-> i]
       ELSE [stop |-> TRUE, row |-> <<>>, next |-> i]
  ELSE LET ps2 == ParseLine(ps, lines[i], 1)
       IN IF ps2.st = "START_RECORD"
          THEN [stop |-> FALSE, row |-> ps2.fields, next |-> i + 1]
          ELSE ReaderNext(lines, i + 1, ps2)

RECURSIVE ReaderAll(_, _)
ReaderAll(lines, i) ==
  LET r == ReaderNext(lines, i, ParseReset)
  IN IF r.stop THEN <<>> ELSE <<r.row>> \o ReaderAll(lines, r.next)

(***************************************************************************)
(* csv.DictReader(infile, delimiter='\t'): rows as insertion-ordered       *)
(* dictionaries.  A dictionary is a sequence of entries, a key is a field  *)
(* name or None (the reader's restkey), a value is a string, None (the     *)
(* reader's restval) or a list of strings.                                 *)
(***************************************************************************)
StrKey(s) == [none |-> FALSE, name |-> s]
NoneKey == [none |-> TRUE, name |-> <<>>]

StrVal(s) == [tag |-> "str", str |-> s, list |-> <<>>]
NoneVal == [tag |-> "none", str |-> <<>>, list |-> <<>>]
ListVal(l) == [tag |-> "list", str |-> <<>>, list |-> l]

\* d[k] = v
DictSet(d, k, v) ==
  IF \E j \in 1..Len(d) : d[j].key = k
  THEN [j \in 1..Len(d) |-> IF d[j].key = k THEN [key |-> k, val |-> v] ELSE d[j]]
  ELSE Append(d, [key |-> k, val |-> v])

Keys(d) == {d[j].key : j \in 1..Len(d)}

\* dict(zip(self.fieldnames, row))
RECURSIVE ZipDict(_, _, _, _)
ZipDict(names, row, k, d) ==
  IF k > Len(names) \/ k > Len(row) THEN d
  ELSE ZipDict(names, row, k + 1, DictSet(d, StrKey(names[k]), StrVal(row[k])))

\* for key in self.fieldnames[lr:]: d[key] = self.restval
RECURSIVE FillRest(_, _, _)
FillRest(names, k, d) ==
  IF k > Len(names) THEN d
  ELSE FillRest(names, k + 1, DictSet(d, StrKey(names[k]), NoneVal))

\* A reader that leaves the missing trailing keys out instead of filling
\* them with restval.
RowDictNoFill(names, row) ==
  LET d == ZipDict(names, row, 1, <<>>)
  IN IF Len(names) < Len(row)
     THEN DictSet(d, NoneKey, ListVal(SubSeq(row, Len(names) + 1, Len(row))))
     ELSE d

\* A reader that drops the fields beyond the header instead of keeping them
\* under restkey.
RowDictDropExtra(names, row) ==
  LET d == ZipDict(names, row, 1, <<>>)
  IN IF Len(names) > Len(row) THEN FillRest(names, Len(row) + 1, d) ELSE d

RowDict(names, row) ==
  LET d == ZipDict(names, row, 1, <<>>)
      lf == Len(names)
      lr == Len(row)
  IN IF lf < lr THEN DictSet(d, NoneKey, ListVal(SubSeq(row, lf + 1, lr)))
     ELSE IF lf > lr THEN FillRest(names, lr + 1, d)
     ELSE d

NoFieldNames == [set |-> FALSE, names |-> <<>>]

\* DictReader.fieldnames: the first access takes one row from the reader.
FieldNames(lines, i, fn) ==
  IF fn.set THEN [fn |-> fn, next |-> i]
  ELSE LET r == ReaderNext(lines, i, ParseReset)
       IN IF r.stop THEN [fn |-> fn, next |-> i]
          ELSE [fn |-> [set |-> TRUE, names |-> r.row], next |-> r.next]

\* A reader that returns blank rows like any other.
NextNonBlankKeep(lines, i) == ReaderNext(lines, i, ParseReset)

\* row = next(self.reader); while row == []: row = next(self.reader)
RECURSIVE NextNonBlank(_, _)
NextNonBlank(lines, i) ==
  LET r == ReaderNext(lines, i, ParseReset)
  IN IF ~r.stop /\ r.row = <<>> THEN NextNonBlank(lines, r.next) ELSE r

\* A reader that is exhausted after its first row.
DictReaderNextOnce(lines, i, fn) ==
  LET h == FieldNames(lines, i, fn)
      r == NextNonBlank(lines, h.next)
  IN [stop |-> r.stop \/ fn.set, fn |-> h.fn, next |-> IF fn.set THEN i ELSE r.next,
      d |-> IF r.stop \/ fn.set THEN <<>> ELSE RowDict(h.fn.names, r.row)]

\* DictReader.__next__
DictReaderNext(lines, i, fn) ==
  LET h == FieldNames(lines, i, fn)
      r == NextNonBlank(lines, h.next)
  IN [stop |-> r.stop, fn |-> h.fn, next |-> r.next,
      d |-> IF r.stop THEN <<>> ELSE RowDict(h.fn.names, r.row)]

(***************************************************************************)
(* csv.writer(outfile).writerow(row)                                       *)
(***************************************************************************)
NeedsQuote(f) == \E i \in 1..Len(f) : f[i] \in {44, QUOTE, CR, NL}

RECURSIVE DoubleQuotes(_, _)
DoubleQuotes(f, k) ==
  IF k > Len(f) THEN <<>>
  ELSE (IF f[k] = QUOTE THEN <<QUOTE, QUOTE>> ELSE <<f[k]>>) \o DoubleQuotes(f, k + 1)

WriteField(f, only) ==
  IF NeedsQuote(f) \/ (only /\ f = <<>>)
  THEN <<QUOTE>> \o DoubleQuotes(f, 1) \o <<QUOTE>>
  ELSE f

RECURSIVE JoinFields(_, _)
JoinFields(row, k) ==
  IF k > Len(row) THEN <<>>
  ELSE (IF k > 1 THEN <<44>> ELSE <<>>) \o WriteField(row[k], Len(row) = 1) \o JoinFields(row, k + 1)

\* one record: the fields joined by commas, ended by "\r\n"
WriteRow(row) == JoinFields(row, 1) \o <<CR, NL>>

(***************************************************************************)
(* json.dump(data, outfile, indent=4): the array of objects written.  A    *)
(* None key is written as the name "null".                                 *)
(***************************************************************************)
JsonKey(k) == IF k.none THEN <<110, 117, 108, 108>> ELSE k.name

JsonObject(d) == [j \in 1..Len(d) |-> [name |-> JsonKey(d[j].key), val |-> d[j].val]]

JsonDump(data) == [i \in 1..Len(data) |-> JsonObject(data[i])]

(***************************************************************************)
(* convert_to_xml: an item is the sequence of its child elements, each a   *)
(* tag (the dictionary key) and a text (the dictionary value).             *)
(***************************************************************************)
\* Children created without their text.
MakeItemNoText(d) == [j \in 1..Len(d) |-> [tag |-> d[j].key, text |-> NoneVal]]

\* for key, value in row.items(): child = ET.SubElement(item, key); child.text = value
MakeItem(d) == [j \in 1..Len(d) |-> [tag |-> d[j].key, text |-> d[j].val]]

RootTag == <<114, 111, 111, 116>>
ItemTag == <<105, 116, 101, 109>>

Tok(k, s) == [k |-> k, s |-> s]

\* ElementTree's serializer for one child: an element without tag writes
\* only its text, and writing a text that is not a string raises TypeError;
\* an element whose text is None or empty is written in the short form.
SerChild(c) ==
  IF c.tag.none
  THEN IF c.text.tag = "list" THEN [ok |-> c.text.list = <<>>, toks |-> <<>>]
       ELSE IF c.text.str = <<>> THEN [ok |-> TRUE, toks |-> <<>>]
       ELSE [ok |-> TRUE, toks |-> <<Tok("text", c.text.str)>>]
  ELSE IF c.text.tag = "list" /\ c.text.list # <<>>
       THEN [ok |-> FALSE, toks |-> <<Tok("start", c.tag.name)>>]
       ELSE IF c.text.str = <<>> THEN [ok |-> TRUE, toks |-> <<Tok("empty", c.tag.name)>>]
       ELSE [ok |-> TRUE, toks |-> <<Tok("start", c.tag.name), Tok("text", c.text.str),
                                     Tok("end", c.tag.name)>>]

SerElem(tag, body) ==
  IF ~body.ok THEN [ok |-> FALSE, toks |-> <<Tok("start", tag)>> \o body.toks]
  ELSE [ok |-> TRUE, toks |-> <<Tok("start", tag)>> \o body.toks \o <<Tok("end", tag)>>]

\* The children of an item in order, stopping at the first failure.
RECURSIVE SerChildren(_, _)
SerChildren(item, k) ==
  IF k > Len(item) THEN [ok |-> TRUE, toks |-> <<>>]
  ELSE LET head == SerChild(item[k])
       IN IF ~head.ok THEN head
          ELSE LET rest == SerChildren(item, k + 1)
               IN [ok |-> rest.ok, toks |-> head.toks \o rest.toks]

SerItem(item) ==
  IF item = <<>> THEN [ok |-> TRUE, toks |-> <<Tok("empty", ItemTag)>>]
  ELSE SerElem(ItemTag, SerChildren(item, 1))

\* The items under root in order, stopping at the first failure.
RECURSIVE SerItems(_, _)
SerItems(items, k) ==
  IF k > Len(items) THEN [ok |-> TRUE, toks |-> <<>>]
  ELSE LET head == SerItem(items[k])
       IN IF ~head.ok THEN head
          ELSE LET rest == SerItems(items, k + 1)
               IN [ok |-> rest.ok, toks |-> head.toks \o rest.toks]

\* tree.write(output_file, encoding='utf-8')
SerRoot(items) ==
  IF items = <<>> THEN [ok |-> TRUE, toks |-> <<Tok("empty", RootTag)>>]
  ELSE SerElem(RootTag, SerItems(items, 1))

(***************************************************************************)
(* Program state.                                                          *)
(***************************************************************************)
VARIABLES
  argv,         \* sys.argv
  inFile,       \* the file argv[1] names: whether it exists, and its bytes
  outs,         \* output.csv, output.json, output.xml in the working directory
  csvFile,      \* records written to output.csv by this run
  jsonFile,     \* array written to output.json by this run
  xmlFile,      \* tokens written to output.xml by this run
  pc,           \* position of the program
  handles,      \* file handles currently open
  lines,        \* lines of the opened input file
  pos,          \* index of the next line the reader will take
  fieldnames,   \* DictReader's field names, once read
  data,         \* convert_to_json: rows read so far
  root,         \* convert_to_xml: item elements under root
  stdout,       \* messages printed
  status,       \* exit status once the process has ended
  exc,          \* exception being propagated
  called,       \* conversion routine main has called
  output_file   \* main's local output_file

vars == <<argv, inFile, outs, csvFile, jsonFile, xmlFile, pc, handles, lines, pos,
          fieldnames, data, root, stdout, status, exc, called, output_file>>

Prog == "Formater.py"
InputName == "data.tsv"
Flags == {"-c", "-j", "-x", "-z"}
OutNames == {"output.csv", "output.json", "output.xml"}

\* Command lines with zero to three arguments after the script name.
Argvs ==
  {<<Prog>>, <<Prog, InputName>>, <<Prog, InputName, "-c", "-j">>}
    \cup {<<Prog, InputName, f>> : f \in Flags}

InFiles ==
  {[exists |-> FALSE, bytes |-> <<>>]} \cup {[exists |-> TRUE, bytes |-> b] : b \in Contents}

Msg(kind, file) == [kind |-> kind, file |-> file]

Init ==
  /\ argv \in Argvs
  /\ inFile \in InFiles
  /\ \E pre \in BOOLEAN :
       outs = [f \in OutNames |-> [exists |-> pre, old |-> pre, truncs |-> 0]]
  /\ csvFile = <<>>
  /\ jsonFile = <<>>
  /\ xmlFile = <<>>
  /\ pc = "main"
  /\ handles = {}
  /\ lines = <<>>
  /\ pos = 1
  /\ fieldnames = NoFieldNames
  /\ data = <<>>
  /\ root = <<>>
  /\ stdout = <<>>
  /\ status = "running"
  /\ exc = "none"
  /\ called = "none"
  /\ output_file = ""

\* open(name, 'w'): the file is created or truncated.
Truncate(name) ==
  [outs EXCEPT ![name] = [exists |-> TRUE, old |-> FALSE, truncs |-> @.truncs + 1]]

(***************************************************************************)
(* main                                                                    *)
(***************************************************************************)
\* len(sys.argv) != 3: usage message, sys.exit(1)
MainUsage ==
  /\ pc = "main"
  /\ Len(argv) # 3
  /\ stdout' = Append(stdout, Msg("usage", ""))
  /\ status' = "1"
  /\ pc' = "done"
  /\ UNCHANGED <<argv, inFile, outs, csvFile, jsonFile, xmlFile, handles, lines, pos,
                 fieldnames, data, root, exc, called, output_file>>

\* a recognised flag: output_file is set and the conversion is called
MainCall(flag, name, routine, entry) ==
  /\ argv[3] = flag
  /\ output_file' = name
  /\ called' = routine
  /\ pc' = entry
  /\ UNCHANGED <<argv, inFile, outs, csvFile, jsonFile, xmlFile, handles, lines, pos,
                 fieldnames, data, root, stdout, status, exc>>

MainCsv ==
  /\ pc = "main"
  /\ Len(argv) = 3
  /\ MainCall("-c", "output.csv", "convert_to_csv", "csv_open_in")

\* The -j branch with the output name of the -c branch.
MainJsonWrongFile ==
  /\ pc = "main"
  /\ Len(argv) = 3
  /\ MainCall("-j", "output.csv", "convert_to_json", "json_open_in")

MainJson ==
  /\ pc = "main"
  /\ Len(argv) = 3
  /\ MainCall("-j", "output.json", "convert_to_json", "json_open_in")

MainXml ==
  /\ pc = "main"
  /\ Len(argv) = 3
  /\ MainCall("-x", "output.xml", "convert_to_xml", "xml_open_in")

\* The error message without the sys.exit(1) after it: main falls through
\* to its last statement.
MainInvalidFlagNoExit ==
  /\ pc = "main"
  /\ Len(argv) = 3
  /\ argv[3] \notin {"-c", "-j", "-x"}
  /\ stdout' = Append(stdout, Msg("invalid flag", ""))
  /\ pc' = "print"
  /\ UNCHANGED <<argv, inFile, outs, csvFile, jsonFile, xmlFile, handles, lines, pos,
                 fieldnames, data, root, status, exc, called, output_file>>

\* any other flag: error message, sys.exit(1)
MainInvalidFlag ==
  /\ pc = "main"
  /\ Len(argv) = 3
  /\ argv[3] \notin {"-c", "-j", "-x"}
  /\ stdout' = Append(stdout, Msg("invalid flag", ""))
  /\ status' = "1"
  /\ pc' = "done"
  /\ UNCHANGED <<argv, inFile, outs, csvFile, jsonFile, xmlFile, handles, lines, pos,
                 fieldnames, data, root, exc, called, output_file>>

\* print(f"Conversion complete. Output saved to {output_file}"); main
\* returns and the interpreter exits with status 0.
MainPrint ==
  /\ pc = "print"
  /\ stdout' = Append(stdout, Msg("complete", output_file))
  /\ status' = "0"
  /\ pc' = "done"
  /\ UNCHANGED <<argv, inFile, outs, csvFile, jsonFile, xmlFile, handles, lines, pos,
                 fieldnames, data, root, exc, called, output_file>>

(***************************************************************************)
(* Steps shared by the conversion routines.                                *)
(***************************************************************************)
\* open(input_file, 'r', ...): a missing file raises FileNotFoundError, which
\* nothing catches: the process ends with a traceback and status 1.
OpenIn(then) ==
  /\ IF inFile.exists
     THEN /\ handles' = handles \cup {"infile"}
          /\ lines' = FileLines(inFile.bytes)
          /\ pos' = 1
          /\ pc' = then
          /\ UNCHANGED <<status, exc>>
     ELSE /\ exc' = "FileNotFoundError"
          /\ status' = "1"
          /\ pc' = "done"
          /\ UNCHANGED <<handles, lines, pos>>
  /\ UNCHANGED <<argv, inFile, outs, csvFile, jsonFile, xmlFile, fieldnames, data, root,
                 stdout, called, output_file>>

\* Leaving the with blocks closes the given handles; the routine then
\* returns to main, or the pending exception ends the process.
CloseAll(hs) ==
  /\ handles' = handles \ hs
  /\ IF exc = "none"
     THEN pc' = "print" /\ UNCHANGED status
     ELSE pc' = "done" /\ status' = "1"
  /\ UNCHANGED <<argv, inFile, outs, csvFile, jsonFile, xmlFile, lines, pos, fieldnames,
                 data, root, stdout, exc, called, output_file>>

(***************************************************************************)
(* convert_to_csv                                                          *)
(***************************************************************************)
\* The with statement with its two items swapped: the output file is
\* opened, and so truncated, before the input file.
CsvOpenInOutFirst ==
  /\ pc = "csv_open_in"
  /\ outs' = Truncate(output_file)
  /\ IF inFile.exists
     THEN /\ handles' = handles \cup {"infile"}
          /\ lines' = FileLines(inFile.bytes)
          /\ pos' = 1
          /\ pc' = "csv_open_out"
          /\ UNCHANGED <<status, exc>>
     ELSE /\ exc' = "FileNotFoundError"
          /\ status' = "1"
          /\ pc' = "done"
          /\ UNCHANGED <<handles, lines, pos>>
  /\ UNCHANGED <<argv, inFile, csvFile, jsonFile, xmlFile, fieldnames, data, root,
                 stdout, called, output_file>>

CsvOpenIn ==
  /\ pc = "csv_open_in"
  /\ OpenIn("csv_open_out")

\* the second item of the same with statement
CsvOpenOut ==
  /\ pc = "csv_open_out"
  /\ handles' = handles \cup {"outfile"}
  /\ outs' = Truncate(output_file)
  /\ csvFile' = <<>>
  /\ pc' = "csv_rows"
  /\ UNCHANGED <<argv, inFile, xmlFile, jsonFile, lines, pos, fieldnames, data, root,
                 stdout, status, exc, called, output_file>>

\* for row in reader: writer.writerow(row)
CsvNext ==
  /\ pc = "csv_rows"
  /\ LET r == ReaderNext(lines, pos, ParseReset)
     IN IF DecodeRaises(inFile.bytes)
        THEN exc' = "UnicodeDecodeError" /\ pc' = "csv_close" /\ UNCHANGED <<csvFile, pos>>
        ELSE IF r.stop
        THEN pc' = "csv_close" /\ UNCHANGED <<csvFile, pos, exc>>
        ELSE /\ csvFile' = Append(csvFile, WriteRow(r.row))
             /\ pos' = r.next
             /\ UNCHANGED <<pc, exc>>
  /\ UNCHANGED <<argv, inFile, outs, jsonFile, xmlFile, handles, lines, fieldnames, data,
                 root, stdout, status, called, output_file>>

CsvClose ==
  /\ pc = "csv_close"
  /\ CloseAll({"infile", "outfile"})

(***************************************************************************)
(* convert_to_json                                                         *)
(***************************************************************************)
JsonOpenIn ==
  /\ pc = "json_open_in"
  /\ OpenIn("json_rows")

\* data = [row for row in reader]
JsonNext ==
  /\ pc = "json_rows"
  /\ LET r == DictReaderNext(lines, pos, fieldnames)
     IN IF DecodeRaises(inFile.bytes)
        THEN exc' = "UnicodeDecodeError" /\ pc' = "json_close_in"
             /\ UNCHANGED <<data, pos, fieldnames>>
        ELSE /\ fieldnames' = r.fn
             /\ pos' = r.next
             /\ exc' = exc
             /\ IF r.stop THEN pc' = "json_close_in" /\ data' = data
                ELSE pc' = pc /\ data' = Append(data, r.d)
  /\ UNCHANGED <<argv, inFile, outs, csvFile, jsonFile, xmlFile, handles, lines, root,
                 stdout, status, called, output_file>>

\* end of the first with block
JsonCloseIn ==
  /\ pc = "json_close_in"
  /\ handles' = handles \ {"infile"}
  /\ IF exc = "none"
     THEN pc' = "json_open_out" /\ UNCHANGED status
     ELSE pc' = "done" /\ status' = "1"
  /\ UNCHANGED <<argv, inFile, outs, csvFile, jsonFile, xmlFile, lines, pos, fieldnames,
                 data, root, stdout, exc, called, output_file>>

JsonOpenOut ==
  /\ pc = "json_open_out"
  /\ handles' = handles \cup {"outfile"}
  /\ outs' = Truncate(output_file)
  /\ jsonFile' = <<>>
  /\ pc' = "json_dump"
  /\ UNCHANGED <<argv, inFile, csvFile, xmlFile, lines, pos, fieldnames, data, root,
                 stdout, status, exc, called, output_file>>

\* json.dump(data, outfile, indent=4)
JsonWrite ==
  /\ pc = "json_dump"
  /\ jsonFile' = JsonDump(data)
  /\ pc' = "json_close_out"
  /\ UNCHANGED <<argv, inFile, outs, csvFile, xmlFile, handles, lines, pos, fieldnames,
                 data, root, stdout, status, exc, called, output_file>>

JsonCloseOut ==
  /\ pc = "json_close_out"
  /\ CloseAll({"outfile"})

(***************************************************************************)
(* convert_to_xml                                                          *)
(***************************************************************************)
XmlOpenIn ==
  /\ pc = "xml_open_in"
  /\ OpenIn("xml_rows")

\* for row in reader: item = ET.SubElement(root, "item"); one child per key
XmlNext ==
  /\ pc = "xml_rows"
  /\ LET r == DictReaderNext(lines, pos, fieldnames)
     IN IF DecodeRaises(inFile.bytes)
        THEN exc' = "UnicodeDecodeError" /\ pc' = "xml_close"
             /\ UNCHANGED <<root, pos, fieldnames>>
        ELSE /\ fieldnames' = r.fn
             /\ pos' = r.next
             /\ exc' = exc
             /\ IF r.stop THEN pc' = "xml_open_out" /\ root' = root
                ELSE pc' = pc /\ root' = Append(root, MakeItem(r.d))
  /\ UNCHANGED <<argv, inFile, outs, csvFile, jsonFile, xmlFile, handles, lines, data,
                 stdout, status, called, output_file>>

\* with open(output_file, 'w', encoding='utf-8') as outfile, still inside
\* the with block of infile
XmlOpenOut ==
  /\ pc = "xml_open_out"
  /\ handles' = handles \cup {"outfile"}
  /\ outs' = Truncate(output_file)
  /\ xmlFile' = <<>>
  /\ pc' = "xml_write_open"
  /\ UNCHANGED <<argv, inFile, csvFile, jsonFile, lines, pos, fieldnames, data, root,
                 stdout, status, exc, called, output_file>>

\* tree.write(output_file, ...) is given the file's name, not outfile, and
\* opens the file itself
XmlWriteOpen ==
  /\ pc = "xml_write_open"
  /\ handles' = handles \cup {"writer"}
  /\ outs' = Truncate(output_file)
  /\ xmlFile' = <<>>
  /\ pc' = "xml_serialize"
  /\ UNCHANGED <<argv, inFile, csvFile, jsonFile, lines, pos, fieldnames, data, root,
                 stdout, status, exc, called, output_file>>

\* the serializer writes the tree; a text that is not a string raises
\* TypeError after the tokens before it have been written
XmlSerialize ==
  /\ pc = "xml_serialize"
  /\ LET out == SerRoot(root)
     IN /\ xmlFile' = out.toks
        /\ exc' = IF out.ok THEN exc ELSE "TypeError"
  /\ pc' = "xml_close"
  /\ UNCHANGED <<argv, inFile, outs, csvFile, jsonFile, handles, lines, pos, fieldnames,
                 data, root, stdout, status, called, output_file>>

XmlClose ==
  /\ pc = "xml_close"
  /\ CloseAll({"infile", "outfile", "writer"})

Next ==
  \/ MainUsage \/ MainCsv \/ MainJson \/ MainXml \/ MainInvalidFlag \/ MainPrint
  \/ CsvOpenIn \/ CsvOpenOut \/ CsvNext \/ CsvClose
  \/ JsonOpenIn \/ JsonNext \/ JsonCloseIn \/ JsonOpenOut \/ JsonWrite \/ JsonCloseOut
  \/ XmlOpenIn \/ XmlNext \/ XmlOpenOut \/ XmlWriteOpen \/ XmlSerialize \/ XmlClose

Spec == Init /\ [][Next]_vars

(***************************************************************************)
(* Vocabulary of the properties.                                           *)
(***************************************************************************)
ValidFlags == {"-c", "-j", "-x"}

UsageError == Len(argv) # 3 \/ argv[3] \notin ValidFlags

FileFor(flag) ==
  IF flag = "-c" THEN "output.csv" ELSE IF flag = "-j" THEN "output.json" ELSE "output.xml"

\* The file is as it was before the run: never opened for writing.
Untouched(f) == outs[f].truncs = 0 /\ outs[f].exists = outs[f].old

Confirmed == \E k \in 1..Len(stdout) : stdout[k].kind = "complete"

\* The input as lines, and as the rows csv.reader makes of it.
InputLines == FileLines(inFile.bytes)
NonEmptyDataLines(ls) == Cardinality({i \in 2..Len(ls) : ls[i] # <<NL>>})
NoQuote == QUOTE \notin Range(inFile.bytes)

AllRows == ReaderAll(InputLines, 1)
HeaderOf(rows) == IF rows = <<>> THEN <<>> ELSE rows[1]
NonBlank(r) == r # <<>>
DataRowsOf(rows) == IF rows = <<>> THEN <<>> ELSE SelectSeq(Tail(rows), NonBlank)
KeysOf(names) == {StrKey(names[j]) : j \in 1..Len(names)}
Distinct(names) == \A i, j \in 1..Len(names) : names[i] = names[j] => i = j

Value(d, k) == (CHOOSE e \in Range(d) : e.key = k).val
Text(item, t) == (CHOOSE c \in Range(item) : c.tag = t).text

ItemCount(toks) ==
  Cardinality({k \in 1..Len(toks) : toks[k].k \in {"start", "empty"} /\ toks[k].s = ItemTag})

\* A conversion to JSON or XML that opened its input has ended.
DictRunDone ==
  pc = "done" /\ called \in {"convert_to_json", "convert_to_xml"} /\ inFile.exists

\* The dictionaries built, whichever routine built them, as keys and values:
\* data for JSON, the items' children for XML.
Built == IF called = "convert_to_xml"
         THEN [i \in 1..Len(root) |-> [j \in 1..Len(root[i]) |-> [key |-> root[i][j].tag, val |-> root[i][j].text]]]
         ELSE data

C2_ShortRowKeysAbsent ==
  DictRunDone =>
    LET rows == DataRowsOf(AllRows)
        names == HeaderOf(AllRows)
        built == Built
    IN \A i \in 1..Len(built) :
         (i <= Len(rows) /\ Len(rows[i]) < Len(names)) =>
           Keys(built[i]) = {StrKey(names[j]) : j \in 1..Len(rows[i])}

\* C2 amended: a data row with k fields, k less than the header length h,
\* yields a mapping that contains every header key; the keys of columns
\* k+1..h are present with the value None, written as null in the JSON
\* object and as an empty child element in the XML item.
C2_ShortRowKeysNone ==
  DictRunDone =>
    LET rows == DataRowsOf(AllRows)
        names == HeaderOf(AllRows)
        built == Built
    IN \A i \in 1..Len(built) :
         (i <= Len(rows) /\ Len(rows[i]) < Len(names)) =>
           /\ Keys(built[i]) = KeysOf(names)
           /\ \A j \in (Len(rows[i]) + 1)..Len(names) :
                /\ Value(built[i], StrKey(names[j])).tag = "none"
                /\ called = "convert_to_json" =>
                     \E e \in Range(jsonFile[i]) : e.name = names[j] /\ e.val.tag = "none"
                /\ (called = "convert_to_xml" /\ status = "0") =>
                     \E k \in 1..Len(xmlFile) : xmlFile[k] = Tok("empty", names[j])

C2_Witness ==
  /\ pc = "done" /\ called = "convert_to_json" /\ status = "0"
  /\ \E i \in 1..Len(data) :
       i <= Len(DataRowsOf(AllRows)) /\ Len(DataRowsOf(AllRows)[i]) < Len(HeaderOf(AllRows))

(***************************************************************************)
(* C3  Header fidelity.                                                    *)
(***************************************************************************)
\* C3 as stated: the keys of every row's mapping are header field names,
\* fields beyond the header length appear under no key, and a row with as
\* many fields as the header has exactly the header's keys.
C3_KeysWithinHeader ==
  DictRunDone =>
    LET rows == DataRowsOf(AllRows)
        names == HeaderOf(AllRows)
        built == Built
    IN \A i \in 1..Len(built) :
         /\ Keys(built[i]) \subseteq KeysOf(names)
         /\ (i <= Len(rows) /\ Len(rows[i]) = Len(names)) => Keys(built[i]) = KeysOf(names)

\* C3 amended: a row with at most as many fields as the header has exactly
\* the header's field names as keys; a row with more fields has, besides
\* them, the key None (the name "null" in JSON), whose value is the list of
\* the fields beyond the header length, so those fields are kept, not dropped.
C3_KeysHeaderOrRest ==
  DictRunDone =>
    LET rows == DataRowsOf(AllRows)
        names == HeaderOf(AllRows)
        built == Built
    IN /\ Len(built) = Len(rows)
       /\ \A i \in 1..Len(built) :
            i <= Len(rows) =>
              IF Len(rows[i]) <= Len(names)
              THEN Keys(built[i]) = KeysOf(names)
              ELSE /\ Keys(built[i]) = KeysOf(names) \cup {NoneKey}
                   /\ Value(built[i], NoneKey).tag = "list"
                   /\ Value(built[i], NoneKey).list = SubSeq(rows[i], Len(names) + 1, Len(rows[i]))
                   /\ called = "convert_to_json" =>
                        \E e \in Range(jsonFile[i]) :
                          e.name = JsonKey(NoneKey) /\ e.val.tag = "list"

C3_Witness ==
  /\ pc = "done" /\ called = "convert_to_json" /\ status = "0"
  /\ \E i \in 1..Len(data) :
       /\ i <= Len(DataRowsOf(AllRows))
       /\ Len(HeaderOf(AllRows)) >= 1
       /\ Len(DataRowsOf(AllRows)[i]) > Len(HeaderOf(AllRows))

(***************************************************************************)
(* C4  Resource scoping.                                                   *)
(***************************************************************************)
\* C4: at most two file handles are open at any time, and none is open once
\* the conversion routine has been left.
C4_AtMostTwoHandles ==
  /\ Cardinality(handles) <= 2
  /\ pc \in {"main", "print", "done"} => handles = {}

(***************************************************************************)
(* C5  No streaming.                                                       *)
(***************************************************************************)
\* C5 as stated: under every flag, once the output file has been opened for
\* writing all input rows have been read.
C5_NoStreamingEveryFlag ==
  (\E f \in OutNames : outs[f].truncs > 0) => pos > Len(lines)

\* C5 amended: under -j and -x all rows of the input have been read into
\* memory before the output file is opened for writing; under -c the output
\* file is opened before the first row is read, and rows are read, and
\* written, while it is open.
C5_NoStreamingJsonXml ==
  /\ (called \in {"convert_to_json", "convert_to_xml"} /\ outs[output_file].truncs > 0) =>
       /\ pos > Len(lines)
       /\ pc \in {"json_dump", "xml_write_open"} =>
            Len(Built) = Len(DataRowsOf(AllRows))
  /\ (called = "convert_to_csv" /\ (pos > 1 \/ pc = "csv_rows")) =>
       outs[output_file].truncs = 1
  /\ (called = "convert_to_csv" /\ csvFile # <<>>) => pos > 1

C5_Witness ==
  /\ pc = "json_dump" /\ Len(data) >= 2 /\ jsonFile = <<>> /\ "outfile" \in handles

(***************************************************************************)
(* C6  Usage errors.                                                       *)
(***************************************************************************)
\* C6: when the argument count is not two or the flag is none of -c, -j, -x,
\* main prints one message and exits with status 1; no conversion routine is
\* called, no output file is created or overwritten and no confirmation is
\* printed.
C6_UsageError ==
  UsageError =>
    /\ called = "none"
    /\ \A f \in OutNames : Untouched(f)
    /\ ~Confirmed
    /\ handles = {}
    /\ pc \in {"main", "done"}
    /\ pc = "done" =>
         /\ status = "1"
         /\ exc = "none"
         /\ stdout = <<Msg(IF Len(argv) # 3 THEN "usage" ELSE "invalid flag", "")>>

C6_Witness == pc = "done" /\ Len(argv) = 3 /\ argv[3] = "-z" /\ status = "1"

(***************************************************************************)
(* C7  Flag dispatch and confirmation.                                     *)
(***************************************************************************)
\* C7: with two arguments and a flag among -c, -j, -x, a conversion that
\* completes has written the file fixed for the flag and left the other two
\* untouched; the confirmation names that file, is printed only after the
\* conversion has returned, and the process ends with status 0.
C7_Dispatch ==
  /\ (~UsageError /\ pc = "done" /\ exc = "none") =>
       /\ status = "0"
       /\ outs[FileFor(argv[3])].truncs >= 1
       /\ outs[FileFor(argv[3])].exists
       /\ \A f \in OutNames \ {FileFor(argv[3])} : Untouched(f)
       /\ stdout = <<Msg("complete", FileFor(argv[3]))>>
  /\ Confirmed => (pc = "done" /\ handles = {} /\ exc = "none" /\ status = "0")
  /\ (~UsageError /\ called # "none") =>
       called = (IF argv[3] = "-c" THEN "convert_to_csv"
                 ELSE IF argv[3] = "-j" THEN "convert_to_json" ELSE "convert_to_xml")

C7_Witness ==
  /\ pc = "done" /\ status = "0" /\ argv[Len(argv)] = "-x" /\ Len(argv) = 3
  /\ outs["output.xml"].truncs >= 1 /\ Len(root) >= 1

(***************************************************************************)
(* C8  XML structure.                                                      *)
(***************************************************************************)
ExpectedItem(names, r) ==
  [j \in 1..Len(names) |-> [tag |-> StrKey(names[j]), text |-> StrVal(r[j])]]

C10_MissingInput ==
  (~UsageError /\ ~inFile.exists) =>
    /\ \A f \in OutNames : Untouched(f)
    /\ stdout = <<>>
    /\ handles = {}
    /\ pc = "done" => (exc = "FileNotFoundError" /\ status = "1")
    /\ pc \in {"main", "csv_open_in", "json_open_in", "xml_open_in", "done"}

C10_Witness ==
  /\ pc = "done" /\ ~inFile.exists /\ ~UsageError /\ exc = "FileNotFoundError"
  /\ outs["output.csv"].old
====
